---- MODULE Spec2Model ----
(***************************************************************************)
(* World Happiness Explorer (src/pages/1_World_Happiness_Explorer.py).     *)
(*                                                                         *)
(* The page is a Streamlit script: every user interaction re-runs it from  *)
(* top to bottom (one "rendering pass").  The model follows one process:   *)
(* the CSV file on disk, the st.cache_data memo of load_data, and the      *)
(* position of the current pass with the values it has computed so far.    *)
(*                                                                         *)
(* Values.  A pandas cell is either missing (NaN) or present; a cell is    *)
(* modelled as a tuple of length 0 (NaN) or 1 (<<v>>).  Numbers are exact  *)
(* integers (scores and factors in abstract units), so a mean is kept as   *)
(* the pair <<sum, count>> and a Pearson coefficient as <<num, den2>>      *)
(* (value num / sqrt(den2)).  A DataFrame is a sequence of row records;    *)
(* every row carries its index label idx (its position in the CSV).        *)
(***************************************************************************)
EXTENDS Integers, Sequences, FiniteSets, TLC

VARIABLES
    file,              \* the CSV: [header |-> names, rows |-> rows of text cells]
    fileAt,            \* "page_dir", "repo_root" or "absent"
    cache,             \* st.cache_data memo of load_data: <<>> or <<table>>
    reads,             \* number of pd.read_csv calls that read the file
    firstTable,        \* history: <<>> or <<table of the first successful load>>
    pc,                \* position of the rendering pass
    df,                \* the Table of this pass
    selected_year,     \* sidebar selection: NaN (no option) or <<year>>
    selected_region,   \* sidebar selection: "All regions" or a Region
    filtered,          \* the filtered subset
    overview,          \* <<>> or <<summary metrics and top-10 of this pass>>
    factor_col,        \* "" or the factor chosen in the drivers tab
    drivers,           \* <<>> or <<outcome of the pairwise correlation>>
    selected_country,  \* NaN or <<country chosen in the country tab>>
    focus,             \* <<>> or <<country insights of this pass>>
    error              \* "none" or the exception that ended the pass

vars == <<file, fileAt, cache, reads, firstTable, pc, df, selected_year,
          selected_region, filtered, overview, factor_col, drivers,
          selected_country, focus, error>>

passVars == <<pc, df, selected_year, selected_region, filtered, overview,
              factor_col, drivers, selected_country, focus, error>>

----------------------------------------------------------------------------
(* Cells and vocabulary *)

NaN == <<>>

notna(v) == v # NaN

\* The Region names of the model, in ascending string order.
RegionOrder == <<"East", "West">>

Regions == {RegionOrder[i] : i \in 1..Len(RegionOrder)}

Countries == {"Aland", "Borduria"}

Years == {2015, 2016}

FactorCols == <<"Economy", "Family", "Health", "Freedom", "Trust", "Generosity">>

Factors == {FactorCols[i] : i \in 1..Len(FactorCols)}

NumericCols == {"HappinessScore", "HappinessRank", "Standard Error", "Economy",
                "Family", "Health", "Freedom", "Trust", "Generosity",
                "Dystopia Residual"}

\* Texts pd.read_csv reads as a missing value (a part of its default list).
NAStrings == {"", "NA", "NaN"}

\* Python's string comparison on the Region names.
StrLess(a, b) ==
    \E i, j \in 1..Len(RegionOrder) : RegionOrder[i] = a /\ RegionOrder[j] = b /\ i < j

Abs(n) == IF n < 0 THEN -n ELSE n

SeqToSet(s) == {s[i] : i \in 1..Len(s)}

\* .head(10): the length of the top-N chart.
TopN == 10

\* len(factor_df) > 2: the correlation is computed on more rows than this.
CorrMinRows == 2

----------------------------------------------------------------------------
(* load_data *)

\* The parse of a numeric text: the number, or NaN when the text is no number.
ParseNum(s) ==
    CASE s = "0" -> <<0>>
      [] s = "1" -> <<1>>
      [] s = "2" -> <<2>>
      [] s = "3" -> <<3>>
      [] s = "2015" -> <<2015>>
      [] s = "2016" -> <<2016>>
      [] OTHER -> NaN

\* pd.to_numeric(errors="coerce") on one cell.
to_numeric(cell) == IF cell = NaN THEN NaN ELSE ParseNum(cell[1])

\* pd.read_csv: one row record per line, NA texts become NaN.
read_csv(f) ==
    [columns |-> f.header,
     rows |-> [i \in 1..Len(f.rows) |->
                 [idx |-> i,
                  cells |-> [j \in 1..Len(f.header) |->
                               IF f.rows[i][j] \in NAStrings THEN NaN
                               ELSE <<f.rows[i][j]>>]]]]

\* df.drop(columns=["Unnamed: 0"]) when the column is present.
DropUnnamed(d) ==
    LET keep == SelectSeq([j \in 1..Len(d.columns) |-> j],
                          LAMBDA j : d.columns[j] # "Unnamed: 0")
    IN  [columns |-> [k \in 1..Len(keep) |-> d.columns[keep[k]]],
         rows |-> [i \in 1..Len(d.rows) |->
                     [idx |-> d.rows[i].idx,
                      cells |-> [k \in 1..Len(keep) |-> d.rows[i].cells[keep[k]]]]]]

\* The rename table of df.rename(columns=...).
Rename(name) ==
    CASE name = "Happiness Score" -> "HappinessScore"
      [] name = "Happiness Rank" -> "HappinessRank"
      [] name = "Economy (GDP per Capita)" -> "Economy"
      [] name = "Health (Life Expectancy)" -> "Health"
      [] name = "Trust (Government Corruption)" -> "Trust"
      [] name = "year" -> "Year"
      [] OTHER -> name

RenameCols(d) ==
    [columns |-> [j \in 1..Len(d.columns) |-> Rename(d.columns[j])],
     rows |-> d.rows]

\* One cell of column `name`: numeric columns go through pd.to_numeric, Year
\* through read_csv's own numeric inference, the others stay text.
Coerced(d, r, name) ==
    LET j == CHOOSE k \in 1..Len(d.columns) : d.columns[k] = name
        cell == r.cells[j]
    IN  IF name \in NumericCols \/ name = "Year" THEN to_numeric(cell) ELSE cell

\* The frame after the numeric_cols loop, as row records.
CoerceNumeric(d) ==
    [i \in 1..Len(d.rows) |->
       [idx |-> d.rows[i].idx,
        Country |-> Coerced(d, d.rows[i], "Country"),
        Region |-> Coerced(d, d.rows[i], "Region"),
        Year |-> Coerced(d, d.rows[i], "Year"),
        HappinessScore |-> Coerced(d, d.rows[i], "HappinessScore"),
        Economy |-> Coerced(d, d.rows[i], "Economy"),
        Family |-> Coerced(d, d.rows[i], "Family"),
        Health |-> Coerced(d, d.rows[i], "Health"),
        Freedom |-> Coerced(d, d.rows[i], "Freedom"),
        Trust |-> Coerced(d, d.rows[i], "Trust"),
        Generosity |-> Coerced(d, d.rows[i], "Generosity")]]

KeepAllRows(rows) == rows

\* df[df["HappinessScore"].notna()]
KeepScored(rows) == SelectSeq(rows, LAMBDA r : notna(r.HappinessScore))

\* df[df["Country"].notna()]
KeepNamed(rows) == SelectSeq(rows, LAMBDA r : notna(r.Country))

\* The body of load_data on the file it resolved.
load_data(f) ==
    KeepNamed(KeepScored(CoerceNumeric(RenameCols(DropUnnamed(read_csv(f))))))

CacheMiss(c) == <<>>

\* @st.cache_data: the memo consulted before the body runs.
CacheLookup(c) == c

----------------------------------------------------------------------------
(* DataFrame helpers *)

\* pandas' == on a cell: a missing cell equals nothing.
Eq(cell, v) == cell # NaN /\ cell[1] = v

RECURSIVE Sum(_, _)
\* Sum of the numbers f[i] over the finite index set S.
Sum(f, S) ==
    IF S = {} THEN 0
    ELSE LET i == CHOOSE j \in S : TRUE IN f[i] + Sum(f, S \ {i})

\* Series.mean() of HappinessScore over rows that all carry a score, as
\* <<sum, count>>.
MeanScore(rows) ==
    <<Sum([i \in 1..Len(rows) |-> rows[i].HappinessScore[1]], 1..Len(rows)), Len(rows)>>

RECURSIVE Perms(_)
\* Every arrangement of the finite set S as a sequence.
Perms(S) ==
    IF S = {} THEN {<<>>}
    ELSE UNION {{<<x>> \o p : p \in Perms(S \ {x})} : x \in S}

RECURSIVE SortOutcomes(_, _)
\* The sequences an unstable ascending sort by key may return: keys ascend,
\* rows of equal key come in any order.
SortOutcomes(S, key) ==
    IF S = {} THEN {<<>>}
    ELSE LET m == CHOOSE v \in {key[r] : r \in S} : \A r \in S : v <= key[r]
             G == {r \in S : key[r] = m}
         IN  {g \o rest : g \in Perms(G), rest \in SortOutcomes(S \ G, key)}

\* The sequences a stable ascending sort would return (one): equal keys keep
\* their index order.
StableOutcomes(S, key) ==
    {p \in SortOutcomes(S, key) :
        \A i \in 1..(Len(p) - 1) : key[p[i]] = key[p[i + 1]] => p[i].idx < p[i + 1].idx}

\* DataFrame.sort_values(col, ascending=...) with the default kind="quicksort",
\* which is not a stable sort: rows with a value sorted by it, ties in any order,
\* then the rows missing the value in their existing order.
sort_values(rows, col, ascending) ==
    LET have == {rows[i] : i \in {j \in 1..Len(rows) : notna(rows[j][col])}}
        key == [r \in have |-> IF ascending THEN r[col][1] ELSE -r[col][1]]
        tail == SelectSeq(rows, LAMBDA r : r[col] = NaN)
    IN  {p \o tail : p \in SortOutcomes(have, key)}

----------------------------------------------------------------------------
(* Sidebar and filter stage *)

\* valid_years, as the options of the Year selectbox (None when there are none).
YearOptions(d) ==
    LET ys == {d[i].Year : i \in {j \in 1..Len(d) : notna(d[j].Year)}}
    IN  IF ys = {} THEN {NaN} ELSE ys

\* regions: "All regions" and every Region present.
RegionOptions(d) ==
    {"All regions"} \cup {d[i].Region[1] : i \in {j \in 1..Len(d) : notna(d[j].Region)}}

FilterYearOnly(d, year, region) ==
    SelectSeq(d, LAMBDA r : year # NaN /\ Eq(r.Year, year[1]))

\* filtered = df[df["Year"] == selected_year], narrowed to the Region unless
\* "All regions" is selected.
Filter(d, year, region) ==
    LET byYear == SelectSeq(d, LAMBDA r : year # NaN /\ Eq(r.Year, year[1]))
    IN  IF region # "All regions"
        THEN SelectSeq(byYear, LAMBDA r : Eq(r.Region, region))
        ELSE byYear

IsEmptyNever(rows) == FALSE

\* DataFrame.empty
IsEmpty(rows) == Len(rows) = 0

----------------------------------------------------------------------------
(* Summary metrics and overview tab *)

HeadAll(rows) == rows

\* .head(10)
head(rows) == IF Len(rows) <= TopN THEN rows ELSE SubSeq(rows, 1, TopN)

\* region_means: mean HappinessScore per Region among the rows of the year.
region_means(d, year) ==
    LET rows == SelectSeq(d, LAMBDA r : year # NaN /\ Eq(r.Year, year[1]))
        names == {rows[i].Region[1] : i \in {j \in 1..Len(rows) : notna(rows[j].Region)}}
    IN  [g \in names |-> MeanScore(SelectSeq(rows, LAMBDA r : Eq(r.Region, g)))]

\* What the summary metrics and the overview tab compute from the subset, for
\* one outcome of each of the two sort_values calls.
OverviewOf(d, year, rows, sortedTop, sortedTen) ==
    [num_countries |-> Len(rows),
     avg_score |-> MeanScore(rows),
     top_row |-> sortedTop[1],
     top10 |-> head(sortedTen),
     region_means |-> region_means(d, year)]

----------------------------------------------------------------------------
(* Drivers tab *)

\* filtered.dropna(subset=["HappinessScore", factor_col])
factor_df(rows, fc) == SelectSeq(rows, LAMBDA r : notna(r.HappinessScore) /\ notna(r[fc]))

\* Series.corr (Pearson) of xs against ys in exact arithmetic: NaN when either
\* has no variance, else <<num, den2>> standing for num / sqrt(den2).
Pearson(xs, ys) ==
    LET n == Len(xs)
        I == 1..n
        sx == Sum(xs, I)
        sy == Sum(ys, I)
        sxy == Sum([i \in I |-> xs[i] * ys[i]], I)
        sxx == Sum([i \in I |-> xs[i] * xs[i]], I)
        syy == Sum([i \in I |-> ys[i] * ys[i]], I)
        dx == n * sxx - sx * sx
        dy == n * syy - sy * sy
    IN  IF dx * dy = 0 THEN NaN ELSE <<n * sxy - sx * sy, dx * dy>>

\* factor_df["HappinessScore"].corr(factor_df[factor_col])
corr(fdf, fc) ==
    Pearson([i \in 1..Len(fdf) |-> fdf[i].HappinessScore[1]],
            [i \in 1..Len(fdf) |-> fdf[i][fc][1]])

\* The drivers tab.  The pairwise-correlation block: nothing but an info box on an empty
\* factor_df, else the scatter plot, and the correlation sentence (with corr
\* formatted into it, whatever corr is) when there are more than 2 rows.
\* Then the correlation table over the rows complete in all seven columns.
DriversOf(rows, fc) ==
    LET fdf == factor_df(rows, fc)
        complete == SelectSeq(rows, LAMBDA r : /\ notna(r.HappinessScore)
                                               /\ \A f \in Factors : notna(r[f]))
    IN  [points |-> Len(fdf),
         scatter |-> ~IsEmpty(fdf),
         ranking |-> [f \in Factors |-> corr(complete, f)],
         corr_written |-> Len(fdf) > CorrMinRows,
         corr |-> IF Len(fdf) > CorrMinRows THEN corr(fdf, fc) ELSE NaN]

----------------------------------------------------------------------------
(* Country focus tab *)

\* all_countries, as the options of the Country selectbox (None when empty).
CountryOptions(d) ==
    LET cs == {d[i].Country : i \in {j \in 1..Len(d) : notna(d[j].Country)}}
    IN  IF cs = {} THEN {NaN} ELSE cs

\* df[df["Country"] == selected_country]
country_rows(d, c) == SelectSeq(d, LAMBDA r : c # NaN /\ Eq(r.Country, c[1]))

\* The Year values present in the country's rows.
YearsOf(cdf) == {cdf[i].Year[1] : i \in {j \in 1..Len(cdf) : notna(cdf[j].Year)}}

\* country_df["Year"].min(), as int() takes it (no year present: int(NaN) raises).
start_year(cdf) == CHOOSE y \in YearsOf(cdf) : \A z \in YearsOf(cdf) : y <= z

\* country_df["Year"].max()
end_year(cdf) == CHOOSE y \in YearsOf(cdf) : \A z \in YearsOf(cdf) : y >= z

\* country_df.loc[country_df["Year"] == year, ...].iloc[0]: the first row of
\* that year in country_df's order.
RowOfYear(cdf, year) ==
    cdf[CHOOSE i \in 1..Len(cdf) :
          /\ Eq(cdf[i].Year, year)
          /\ \A j \in 1..(i - 1) : ~Eq(cdf[j].Year, year)]

\* The if / elif / else on last_score and first_score.
trend(first, last) ==
    IF last > first THEN "increased"
    ELSE IF last < first THEN "decreased"
    ELSE "stayed fairly stable"

\* factor_changes, in insertion order: <<factor, last_val - first_val>> for each
\* factor present at both ends.
factor_changes(firstRow, lastRow) ==
    LET both == SelectSeq(FactorCols,
                          LAMBDA fc : notna(firstRow[fc]) /\ notna(lastRow[fc]))
    IN  [k \in 1..Len(both) |-> <<both[k], lastRow[both[k]][1] - firstRow[both[k]][1]>>]

RECURSIVE PyMax(_, _, _)
\* Python's max(iterable, key=abs of the change): the first item no later item
\* strictly exceeds.
PyMax(items, i, best) ==
    IF i > Len(items) THEN best
    ELSE PyMax(items, i + 1, IF Abs(items[i][2]) > Abs(best[2]) THEN items[i] ELSE best)

RECURSIVE PyMaxLast(_, _, _)
PyMaxLast(items, i, best) ==
    IF i > Len(items) THEN best
    ELSE PyMaxLast(items, i + 1, IF Abs(items[i][2]) >= Abs(best[2]) THEN items[i] ELSE best)

TopFactorLast(changes) ==
    IF Len(changes) = 0 THEN NaN ELSE <<PyMaxLast(changes, 2, changes[1])>>

\* top_factor with its change, or None when factor_changes is empty.
top_factor(changes) ==
    IF Len(changes) = 0 THEN NaN ELSE <<PyMax(changes, 2, changes[1])>>

\* The Region values of the country's rows, in country_df's order.
RegionsOf(cdf) ==
    LET have == SelectSeq(cdf, LAMBDA r : notna(r.Region))
    IN  [i \in 1..Len(have) |-> have[i].Region[1]]

Occurrences(vals, v) == Cardinality({i \in 1..Len(vals) : vals[i] = v})

MostFrequent(vals) ==
    {v \in {vals[i] : i \in 1..Len(vals)} :
        \A w \in {vals[i] : i \in 1..Len(vals)} : Occurrences(vals, w) <= Occurrences(vals, v)}

\* The most frequent values in the order they first occur.
ModeFirstSeen(vals) ==
    LET firsts == SelectSeq([i \in 1..Len(vals) |-> i],
                            LAMBDA i : /\ vals[i] \in MostFrequent(vals)
                                       /\ \A j \in 1..(i - 1) : vals[j] # vals[i])
    IN  [k \in 1..Len(firsts) |-> vals[firsts[k]]]

\* Series.mode(): the most frequent non-missing values, sorted ascending.
mode(vals) == SelectSeq(RegionOrder, LAMBDA v : v \in MostFrequent(vals))

\* df[(df["Year"] == end_year) & (df["Region"] == region)]
region_df_final(d, year, region) ==
    SelectSeq(d, LAMBDA r : Eq(r.Year, year) /\ Eq(r.Region, region))

\* region_mean_final: the mean, or None for an empty region_df_final.
region_mean_final(d, year, region) ==
    IF IsEmpty(region_df_final(d, year, region)) THEN NaN
    ELSE <<MeanScore(region_df_final(d, year, region))>>

\* bool(region_mean_final and pd.notna(region_mean_final)): None and 0.0 are falsy.
Truthy(m) == m # NaN /\ m[1][1] # 0

\* comp_phrase: the comparison of last_score with the regional mean.
comp_phrase(last, m) ==
    IF Truthy(m)
    THEN IF last * m[1][2] > m[1][1] THEN "above"
         ELSE IF last * m[1][2] < m[1][1] THEN "below"
         ELSE "close"
    ELSE "unavailable"

\* The exception the insights block raises on country_df, or "none":
\* int(NaN) when no row has a Year, mode().iloc[0] when no row has a Region.
FocusRaises(cdf) ==
    IF YearsOf(cdf) = {} THEN "ValueError"
    ELSE IF Len(mode(RegionsOf(cdf))) = 0 THEN "IndexError"
    ELSE "none"

\* The country insights computed from country_df (sorted by Year) when nothing
\* raises.
FocusOf(d, cdf) ==
    LET firstRow == RowOfYear(cdf, start_year(cdf))
        lastRow == RowOfYear(cdf, end_year(cdf))
        first == firstRow.HappinessScore[1]
        last == lastRow.HappinessScore[1]
        top == top_factor(factor_changes(firstRow, lastRow))
        region == mode(RegionsOf(cdf))[1]
        m == region_mean_final(d, end_year(cdf), region)
    IN  [country_df |-> cdf,
         start_year |-> start_year(cdf),
         end_year |-> end_year(cdf),
         first_score |-> first,
         last_score |-> last,
         trend |-> trend(first, last),
         score_change_abs |-> Abs(last - first),
         top_factor |-> top,
         region |-> region,
         region_mean_final |-> m,
         comp_phrase |-> comp_phrase(last, m)]

----------------------------------------------------------------------------
(* The rendering pass *)

\* Most file reads the model follows (the memo keeps the program at one).
MaxReads == 2

\* The state of a pass that has not started.
PassReset ==
    /\ pc = "start"
    /\ df = <<>>
    /\ selected_year = NaN
    /\ selected_region = "All regions"
    /\ filtered = <<>>
    /\ overview = <<>>
    /\ factor_col = ""
    /\ drivers = <<>>
    /\ selected_country = NaN
    /\ focus = <<>>
    /\ error = "none"

\* df = load_data(): the memoised table, else the file at the page's folder or
\* one level up, read and memoised; FileNotFoundError ends the pass when the
\* file is at neither place.
LoadData ==
    /\ pc = "start"
    /\ IF CacheLookup(cache) # <<>>
       THEN /\ df' = CacheLookup(cache)[1]
            /\ pc' = "loaded"
            /\ UNCHANGED <<cache, reads, firstTable, error>>
       ELSE IF fileAt = "absent"
            THEN /\ pc' = "error"
                 /\ error' = "FileNotFoundError"
                 /\ UNCHANGED <<cache, reads, firstTable, df>>
            ELSE /\ reads < MaxReads
                 /\ df' = load_data(file)
                 /\ cache' = <<load_data(file)>>
                 /\ reads' = reads + 1
                 /\ firstTable' = IF firstTable = <<>> THEN <<load_data(file)>> ELSE firstTable
                 /\ pc' = "loaded"
                 /\ UNCHANGED error
    /\ UNCHANGED <<file, fileAt, selected_year, selected_region, filtered, overview,
                   factor_col, drivers, selected_country, focus>>

\* The sidebar selectboxes and the filter.
SelectFilters ==
    /\ pc = "loaded"
    /\ \E y \in YearOptions(df), g \in RegionOptions(df) :
         /\ selected_year' = y
         /\ selected_region' = g
         /\ filtered' = Filter(df, y, g)
    /\ pc' = "filtered"
    /\ UNCHANGED <<file, fileAt, cache, reads, firstTable, df, overview, factor_col,
                   drivers, selected_country, focus, error>>

\* if filtered.empty: st.warning(...); st.stop()
StopNoData ==
    /\ pc = "filtered"
    /\ IsEmpty(filtered)
    /\ pc' = "no_data"
    /\ UNCHANGED <<file, fileAt, cache, reads, firstTable, df, selected_year,
                   selected_region, filtered, overview, factor_col, drivers,
                   selected_country, focus, error>>

\* The summary metrics and the overview tab; .iloc[0] of an empty frame raises.
Overview ==
    /\ pc = "filtered"
    /\ ~IsEmpty(filtered)
    /\ IF Len(filtered) = 0
       THEN /\ pc' = "error"
            /\ error' = "IndexError"
            /\ UNCHANGED overview
       ELSE /\ \E s1, s2 \in sort_values(filtered, "HappinessScore", FALSE) :
                 overview' = <<OverviewOf(df, selected_year, filtered, s1, s2)>>
            /\ pc' = "overview"
            /\ UNCHANGED error
    /\ UNCHANGED <<file, fileAt, cache, reads, firstTable, df, selected_year,
                   selected_region, filtered, factor_col, drivers, selected_country,
                   focus>>

\* The drivers tab for the factor chosen in its selectbox.
Drivers ==
    /\ pc = "overview"
    /\ \E fc \in Factors :
         /\ factor_col' = fc
         /\ drivers' = <<DriversOf(filtered, fc)>>
    /\ pc' = "drivers"
    /\ UNCHANGED <<file, fileAt, cache, reads, firstTable, df, selected_year,
                   selected_region, filtered, overview, selected_country, focus, error>>

\* The country tab for the country chosen in its selectbox: the info box on an
\* empty country_df, else the insights or the exception they raise.
CountryFocus ==
    /\ pc = "drivers"
    /\ \E c \in CountryOptions(df) :
         /\ selected_country' = c
         /\ IF IsEmpty(country_rows(df, c))
            THEN /\ pc' = "done"
                 /\ UNCHANGED <<focus, error>>
            ELSE \E cdf \in sort_values(country_rows(df, c), "Year", TRUE) :
                   IF FocusRaises(cdf) # "none"
                   THEN /\ pc' = "error"
                        /\ error' = FocusRaises(cdf)
                        /\ UNCHANGED focus
                   ELSE /\ pc' = "done"
                        /\ focus' = <<FocusOf(df, cdf)>>
                        /\ UNCHANGED error
    /\ UNCHANGED <<file, fileAt, cache, reads, firstTable, df, selected_year,
                   selected_region, filtered, overview, factor_col, drivers>>

\* A user interaction after the pass ended: Streamlit runs the script again.
Rerun ==
    /\ pc \in {"done", "no_data", "error"}
    /\ pc' = "start"
    /\ df' = <<>>
    /\ selected_year' = NaN
    /\ selected_region' = "All regions"
    /\ filtered' = <<>>
    /\ overview' = <<>>
    /\ factor_col' = ""
    /\ drivers' = <<>>
    /\ selected_country' = NaN
    /\ focus' = <<>>
    /\ error' = "none"
    /\ UNCHANGED <<file, fileAt, cache, reads, firstTable>>

\* The environment moves, removes or restores the CSV.  Only LoadData consults
\* the file, so a change during a pass is followed as one right after it.
FileMove ==
    /\ pc \in {"done", "no_data", "error"}
    /\ \E w \in {"page_dir", "repo_root", "absent"} : w # fileAt /\ fileAt' = w
    /\ UNCHANGED <<file, cache, reads, firstTable, passVars>>

\* The environment rewrites the CSV without its last line.
FileRewrite ==
    /\ pc \in {"done", "no_data", "error"}
    /\ Len(file.rows) > 0
    /\ file' = [file EXCEPT !.rows = SubSeq(file.rows, 1, Len(file.rows) - 1)]
    /\ UNCHANGED <<fileAt, cache, reads, firstTable, passVars>>

----------------------------------------------------------------------------
(* The process: a file of bounded size, any number of passes *)

\* Most lines of the CSV.
MaxRows == 2

CanonHeader ==
    <<"Country", "Region", "Year", "HappinessScore", "Economy", "Family", "Health",
      "Freedom", "Trust", "Generosity">>

LegacyHeader ==
    <<"Country", "Region", "year", "Happiness Score", "Economy (GDP per Capita)",
      "Family", "Health (Life Expectancy)", "Freedom",
      "Trust (Government Corruption)", "Generosity">>

SeqsUpTo(S, n) == UNION {[1..k -> S] : k \in 0..n}

\* The lines of the CSV: one country, either Region, either Year, a score that
\* may be missing.
MainLines ==
    {<<"Aland", g, y, sc, "1", "1", "1", "1", "1", "1">> :
        g \in Regions, y \in {"2015", "2016"}, sc \in {"", "1"}}

Init ==
    /\ file \in [header : {LegacyHeader}, rows : SeqsUpTo(MainLines, MaxRows)]
    /\ fileAt \in {"page_dir", "repo_root", "absent"}
    /\ cache = <<>>
    /\ reads = 0
    /\ firstTable = <<>>
    /\ PassReset

Next ==
    \/ LoadData
    \/ SelectFilters
    \/ StopNoData
    \/ Overview
    \/ Drivers
    \/ CountryFocus
    \/ Rerun
    \/ FileMove
    \/ FileRewrite

Spec == Init /\ [][Next]_vars

----------------------------------------------------------------------------
(* Bounded inputs for the single stages of the pass *)

NoFactors == [f \in Factors |-> NaN]

\* A row of a loaded Table.
Row(i, c, g, y, sc, fac) ==
    [idx |-> i, Country |-> c, Region |-> g, Year |-> y, HappinessScore |-> sc,
     Economy |-> fac["Economy"], Family |-> fac["Family"], Health |-> fac["Health"],
     Freedom |-> fac["Freedom"], Trust |-> fac["Trust"],
     Generosity |-> fac["Generosity"]]

\* The tables of at most n rows whose i-th row is Mk(i, c) for a choice c.
TablesOf(Choices, n, Mk(_, _)) ==
    UNION {{[i \in 1..k |-> Mk(i, ch[i])] : ch \in [1..k -> Choices]} : k \in 0..n}

\* A pass that has loaded Table t from the memo.
AtLoaded(t) ==
    /\ file = [header |-> CanonHeader, rows |-> <<>>]
    /\ fileAt = "page_dir"
    /\ cache = <<t>>
    /\ reads = 1
    /\ firstTable = <<t>>
    /\ df = t
    /\ error = "none"

\* A pass that has filtered Table t by year y and "All regions".
AtFiltered(t, y) ==
    /\ AtLoaded(t)
    /\ selected_year = y
    /\ selected_region = "All regions"
    /\ filtered = Filter(t, y, "All regions")

\* A pass that has rendered the overview of Table t for year y.
AtOverview(t, y) ==
    /\ AtFiltered(t, y)
    /\ \E s \in StableOutcomes(SeqToSet(Filter(t, y, "All regions")),
                               [r \in SeqToSet(Filter(t, y, "All regions")) |->
                                  -r.HappinessScore[1]]) :
         overview = <<OverviewOf(t, y, Filter(t, y, "All regions"), s, s)>>

\* A pass that has rendered the drivers tab of Table t for year y.
AtDrivers(t, y) ==
    /\ AtOverview(t, y)
    /\ factor_col = "Economy"
    /\ drivers = <<DriversOf(Filter(t, y, "All regions"), "Economy")>>

\* The first Year present in t.
FirstYear(t) == CHOOSE y \in YearOptions(t) : \A z \in YearOptions(t) : y[1] <= z[1]

(* load_data on a file whose required and optional cells may be malformed *)

\* Most lines of the CSV handed to load_data.
MaxRawRows == 2

IndexedHeader == <<"Unnamed: 0">> \o LegacyHeader

RawLines ==
    {<<c, "West", "2015", sc, e, "1", "1", "1", "1", "1">> :
        c \in {"", "NA", "Aland"}, sc \in {"", "abc", "1"}, e \in {"", "abc", "2"}}

RawFiles ==
    [header : {CanonHeader, LegacyHeader}, rows : SeqsUpTo(RawLines, MaxRawRows)]
      \cup [header : {IndexedHeader},
            rows : SeqsUpTo({<<"7">> \o l : l \in RawLines}, MaxRawRows)]

InitLoad ==
    /\ file \in RawFiles
    /\ fileAt \in {"page_dir", "repo_root"}
    /\ cache = <<>>
    /\ reads = 0
    /\ firstTable = <<>>
    /\ PassReset

NextLoad == LoadData

SpecLoad == InitLoad /\ [][NextLoad]_vars

(* the filter on Tables with missing Years and Regions *)

\* Most rows of the Table handed to the filter.
MaxFilterRows == 3

OptYears == {NaN} \cup {<<y>> : y \in Years}

OptRegions == {NaN} \cup {<<g>> : g \in Regions}

FilterTables ==
    TablesOf(OptRegions \X OptYears, MaxFilterRows,
             LAMBDA i, c : Row(i, <<"Aland">>, c[1], c[2], <<1>>, NoFactors))

InitFilter ==
    /\ \E t \in FilterTables : AtLoaded(t)
    /\ pc = "loaded"
    /\ selected_year = NaN
    /\ selected_region = "All regions"
    /\ filtered = <<>>
    /\ overview = <<>>
    /\ factor_col = ""
    /\ drivers = <<>>
    /\ selected_country = NaN
    /\ focus = <<>>

NextFilter == SelectFilters

SpecFilter == InitFilter /\ [][NextFilter]_vars

(* the overview on subsets shorter and longer than the top-N chart *)

\* Most rows that follow the leading rows of the subset handed to the overview.
MaxTail == 3

\* Leading rows with scores 1, 2, ...: none, or one fewer than the chart holds.
TopTables ==
    {[i \in 1..(pad + Len(tail)) |->
        Row(i, <<"Aland">>, <<"East">>, <<2015>>,
            IF i <= pad THEN <<i>> ELSE <<tail[i - pad]>>, NoFactors)] :
        pad \in {0, TopN - 1}, tail \in SeqsUpTo({0, 1, 2}, MaxTail)}

InitTopN ==
    /\ \E t \in TopTables : AtFiltered(t, <<2015>>)
    /\ pc = "filtered"
    /\ overview = <<>>
    /\ factor_col = ""
    /\ drivers = <<>>
    /\ selected_country = NaN
    /\ focus = <<>>

NextTopN == Overview \/ StopNoData

SpecTopN == InitTopN /\ [][NextTopN]_vars

(* the drivers tab on subsets with missing and constant factor values *)

\* Most rows of the subset handed to the drivers tab.
MaxDriverRows == 3

DriverTables ==
    TablesOf({<<0>>, <<1>>, <<2>>} \X {NaN, <<0>>, <<1>>, <<2>>}, MaxDriverRows,
             LAMBDA i, c : Row(i, <<"Aland">>, <<"East">>, <<2015>>, c[1],
                               [NoFactors EXCEPT !["Economy"] = c[2]]))

InitDrivers ==
    /\ \E t \in DriverTables : Len(t) > 0 /\ AtOverview(t, <<2015>>)
    /\ pc = "overview"
    /\ factor_col = ""
    /\ drivers = <<>>
    /\ selected_country = NaN
    /\ focus = <<>>

NextDrivers == Drivers

SpecDrivers == InitDrivers /\ [][NextDrivers]_vars

(* the country tab on Tables with missing Years, missing Regions and zero scores *)

\* Most rows of the Table handed to the country tab.
MaxCountryRows == 2

CountryTables ==
    TablesOf(({<<c>> : c \in Countries}) \X OptRegions \X OptYears \X {<<0>>, <<1>>},
             MaxCountryRows,
             LAMBDA i, c : Row(i, c[1], c[2], c[3], c[4], NoFactors))

InitCountry ==
    /\ \E t \in CountryTables : YearOptions(t) # {NaN} /\ AtDrivers(t, FirstYear(t))
    /\ pc = "drivers"
    /\ selected_country = NaN
    /\ focus = <<>>

NextCountry == CountryFocus

SpecCountry == InitCountry /\ [][NextCountry]_vars

(* the country tab on Tables where Regions repeat *)

\* Most rows of the Table handed to the regional comparison.
MaxRegionRows == 3

RegionTables ==
    TablesOf(({<<c>> : c \in Countries}) \X OptRegions \X {<<y>> : y \in Years},
             MaxRegionRows,
             LAMBDA i, c : Row(i, c[1], c[2], c[3], <<1>>, NoFactors))

InitRegion ==
    /\ \E t \in RegionTables : Len(t) > 0 /\ AtDrivers(t, FirstYear(t))
    /\ pc = "drivers"
    /\ selected_country = NaN
    /\ focus = <<>>

NextRegion == CountryFocus

SpecRegion == InitRegion /\ [][NextRegion]_vars

(* the country tab on the factor values of one country's first and last year *)

\* Largest factor value.
MaxFactor == 2

FactorCells == {NaN} \cup {<<v>> : v \in 0..MaxFactor}

\* A factor's <<first-year cell, last-year cell>>.
FactorEnds == {<<NaN, <<1>>>>} \cup {<<<<1>>, c>> : c \in FactorCells}

\* One country: a single year with any factor cells, or two years.
FactorTables ==
    {<<Row(1, <<"Aland">>, <<"East">>, <<2015>>, <<1>>, fac)>> :
        fac \in [Factors -> FactorCells]}
      \cup {<<Row(1, <<"Aland">>, <<"East">>, <<2015>>, <<1>>, [f \in Factors |-> e[f][1]]),
              Row(2, <<"Aland">>, <<"East">>, <<2016>>, <<2>>, [f \in Factors |-> e[f][2]])>> :
               e \in [Factors -> FactorEnds]}

InitFactor ==
    /\ \E t \in FactorTables : AtDrivers(t, <<2015>>)
    /\ pc = "drivers"
    /\ selected_country = NaN
    /\ focus = <<>>

NextFactor == CountryFocus

SpecFactor == InitFactor /\ [][NextFactor]_vars

----------------------------------------------------------------------------
(* Properties *)

\* The Table row r is in the subset.
InSubset(r) == \E i \in 1..Len(filtered) : filtered[i] = r

\* C1: after the filter stage the subset holds exactly the Table rows whose
\* Year is the selected year and, unless "All regions" is selected, whose
\* Region is the selected region, in their original relative order.
C1_FilterExact ==
    pc = "filtered" =>
      /\ \A i \in 1..Len(filtered) : \E j \in 1..Len(df) : df[j] = filtered[i]
      /\ \A j \in 1..Len(df) :
           InSubset(df[j]) <=>
             /\ selected_year # NaN
             /\ df[j].Year = selected_year
             /\ selected_region = "All regions" \/ df[j].Region = <<selected_region>>
      /\ \A i, k \in 1..Len(filtered) : i < k => filtered[i].idx < filtered[k].idx

\* A region is selected, two rows pass and a row of the selected year fails on
\* its Region alone.
C1_Witness ==
    /\ pc = "filtered"
    /\ selected_region # "All regions"
    /\ Len(filtered) >= 2
    /\ \E j \in 1..Len(df) : df[j].Year = selected_year /\ ~InSubset(df[j])

\* The text of line k of the file in the column named by one of `names`.
RawText(k, names) ==
    file.rows[k][CHOOSE j \in 1..Len(file.header) : file.header[j] \in names]

IsNumberText(s) == s \in {"0", "1", "2", "3", "2015", "2016"}

\* Line k has a Country and a HappinessScore that is a number.
HasRequired(k) ==
    /\ RawText(k, {"Country"}) \notin NAStrings
    /\ IsNumberText(RawText(k, {"HappinessScore", "Happiness Score"}))

\* C2: every row of the loaded Table has a Country and a numeric
\* HappinessScore; a line of the file is dropped exactly when its Country is
\* missing or its HappinessScore is missing or no number; a retained row has
\* its Economy missing exactly when the text there is no number.
C2_RequiredFields ==
    pc = "loaded" =>
      /\ \A i \in 1..Len(df) :
           /\ notna(df[i].Country)
           /\ notna(df[i].HappinessScore)
           /\ df[i].HappinessScore[1] \in Int
      /\ {df[i].idx : i \in 1..Len(df)} = {k \in 1..Len(file.rows) : HasRequired(k)}
      /\ \A i, k \in 1..Len(df) : i < k => df[i].idx < df[k].idx
      /\ \A i \in 1..Len(df) :
           /\ df[i].Country = <<RawText(df[i].idx, {"Country"})>>
           /\ df[i].Economy = NaN <=>
                ~IsNumberText(RawText(df[i].idx, {"Economy", "Economy (GDP per Capita)"}))

\* Of two lines the first is dropped and the second is retained with its
\* unparseable Economy set to missing.
C2_Witness ==
    /\ pc = "loaded"
    /\ Len(file.rows) = 2
    /\ Len(df) = 1
    /\ df[1].idx = 2
    /\ RawText(2, {"Economy", "Economy (GDP per Capita)"}) = "abc"
    /\ df[1].Economy = NaN

\* C3: a pass whose subset is empty goes from the filter to the "no data"
\* state and nowhere else, nothing raised and no summary, top-N, histogram or
\* correlation evaluated; whatever was evaluated or raised past the filter was
\* on a non-empty subset.
C3_EmptyEndsInNoData ==
    /\ [](/\ pc = "no_data" =>
               /\ Len(filtered) = 0
               /\ error = "none"
               /\ overview = <<>> /\ drivers = <<>> /\ focus = <<>>
          /\ (\/ pc \in {"overview", "drivers", "done"}
              \/ error \in {"IndexError", "ValueError"}
              \/ overview # <<>> \/ drivers # <<>> \/ focus # <<>>) => Len(filtered) > 0)
    /\ [][(pc = "filtered" /\ Len(filtered) = 0 /\ pc' # pc) =>
            /\ pc' = "no_data"
            /\ error' = "none"
            /\ overview' = <<>> /\ drivers' = <<>> /\ focus' = <<>>]_vars

\* A selection of a year and a region that no row of a non-empty Table matches
\* has ended the pass.
C3_Witness ==
    /\ pc = "no_data"
    /\ Len(df) > 0
    /\ selected_year # NaN
    /\ selected_region # "All regions"

\* C4: the file is read by the first successful load and never again, and in
\* every pass, at every position after the load, the Table is the one that load
\* produced.
C4_LoadedOnce ==
    /\ reads <= 1
    /\ reads = 0 <=> firstTable = <<>>
    /\ (pc # "start" /\ error # "FileNotFoundError") =>
         /\ firstTable # <<>>
         /\ df = firstTable[1]

\* A pass ended on the first load's Table although the file has since lost a
\* line and is gone from both folders.
C4_Witness ==
    /\ pc = "done"
    /\ fileAt = "absent"
    /\ firstTable # <<>>
    /\ load_data(file) # firstTable[1]
    /\ df = firstTable[1]

\* The country tab has ended, with its insights or an exception.
FocusEnded == pc \in {"done", "error"} /\ selected_country # NaN

\* The Table rows of the selected country.
CountryRecords == {df[i] : i \in {j \in 1..Len(df) : df[j].Country = selected_country}}

\* The country's rows that carry a Year.
DatedRecords == {r \in CountryRecords : notna(r.Year)}

\* C5: for every country with at least one record the trend summary is
\* produced from the scores of the country's first and last year: "increased"
\* exactly when last > first, "decreased" exactly when last < first, unchanged
\* exactly when equal, and the absolute change is |last - first|.  (A pass the
\* regional comparison ended with IndexError is left aside.)
C5_TrendReported ==
    (FocusEnded /\ CountryRecords # {} /\ error # "IndexError") =>
      /\ focus # <<>>
      /\ \E a, b \in DatedRecords :
           /\ \A r \in DatedRecords : a.Year[1] <= r.Year[1] /\ r.Year[1] <= b.Year[1]
           /\ focus[1].first_score = a.HappinessScore[1]
           /\ focus[1].last_score = b.HappinessScore[1]
      /\ focus[1].trend = "increased" <=> focus[1].last_score > focus[1].first_score
      /\ focus[1].trend = "decreased" <=> focus[1].last_score < focus[1].first_score
      /\ focus[1].trend = "stayed fairly stable" <=>
           focus[1].last_score = focus[1].first_score
      /\ focus[1].score_change_abs = Abs(focus[1].last_score - focus[1].first_score)

\* The rows of the overview's subset, and whether row a may precede row b in a
\* stable descending sort by score.
StableBefore(a, b) ==
    \/ a.HappinessScore[1] > b.HappinessScore[1]
    \/ a.HappinessScore[1] = b.HappinessScore[1] /\ a.idx < b.idx

\* C6 as claimed: the top-N is the first min(10, size) rows of the subset sorted
\* by score descending with equal scores in their original relative order.
C6_TopNStable ==
    pc = "overview" =>
      LET t == overview[1].top10
      IN  /\ Len(t) = (IF Len(filtered) < TopN THEN Len(filtered) ELSE TopN)
          /\ \A i \in 1..Len(t) : InSubset(t[i])
          /\ \A i \in 1..(Len(t) - 1) : StableBefore(t[i], t[i + 1])
          /\ \A i \in 1..Len(filtered) :
               (\A k \in 1..Len(t) : t[k] # filtered[i]) =>
                 \A k \in 1..Len(t) : StableBefore(t[k], filtered[i])

\* C6 as amended: the top-N is the first min(10, size) rows of the subset in
\* some order of descending score: distinct rows of the subset, each adjacent
\* pair with earlier score >= later score, no row left out scoring above a row
\* kept; the order among equal scores is not fixed.
C6_TopNSorted ==
    pc = "overview" =>
      LET t == overview[1].top10
      IN  /\ Len(t) = (IF Len(filtered) < TopN THEN Len(filtered) ELSE TopN)
          /\ \A i \in 1..Len(t) : InSubset(t[i])
          /\ \A i, k \in 1..Len(t) : i # k => t[i] # t[k]
          /\ \A i \in 1..(Len(t) - 1) :
               t[i].HappinessScore[1] >= t[i + 1].HappinessScore[1]
          /\ \A i \in 1..Len(filtered) :
               (\A k \in 1..Len(t) : t[k] # filtered[i]) =>
                 \A k \in 1..Len(t) :
                   t[k].HappinessScore[1] >= filtered[i].HappinessScore[1]

\* More rows than the chart holds, and two rows of equal score charted against
\* their original order.
C6_Witness ==
    /\ pc = "overview"
    /\ Len(filtered) > TopN
    /\ Len(overview[1].top10) = TopN
    /\ \E i \in 1..(TopN - 1) :
         /\ overview[1].top10[i].HappinessScore = overview[1].top10[i + 1].HappinessScore
         /\ overview[1].top10[i].idx > overview[1].top10[i + 1].idx

\* The rows of the subset where HappinessScore and the chosen factor are both
\* present.
CoPresent == {filtered[i] : i \in {j \in 1..Len(filtered) :
                notna(filtered[j].HappinessScore) /\ notna(filtered[j][factor_col])}}

\* The column takes one value over the co-present rows.
ConstantOver(col) == \A a, b \in CoPresent : a[col] = b[col]

\* C7: the correlation sentence reports a number only when the coefficient is
\* defined: it is computed over the co-present rows, it is not written with
\* fewer than 3 of them, and with a constant factor or score it is not written
\* as a correlation value.
C7_CorrelationDefined ==
    pc = "drivers" =>
      /\ drivers[1].points = Cardinality(CoPresent)
      /\ Cardinality(CoPresent) < 3 => ~drivers[1].corr_written
      /\ drivers[1].corr_written =>
           /\ ~ConstantOver(factor_col)
           /\ ~ConstantOver("HappinessScore")
           /\ drivers[1].corr # NaN

\* The Table rows of the comparison's Region in the country's final year.
RegionFinal ==
    {df[i] : i \in {j \in 1..Len(df) :
        /\ df[j].Region = <<focus[1].region>>
        /\ df[j].Year = <<focus[1].end_year>>}}

\* C8: the regional comparison never raises; it is "unavailable" when no row
\* has the Region in the country's final year, and otherwise, a regional mean
\* of 0 included, it is above, below or equal by exact comparison of the final
\* score with the mean.  (A pass that int(NaN) ended with ValueError is left
\* aside.)
C8_ComparisonTotal ==
    (FocusEnded /\ CountryRecords # {} /\ error # "ValueError") =>
      /\ error = "none"
      /\ focus # <<>>
      /\ LET n == Cardinality(RegionFinal)
             total == Sum([r \in RegionFinal |-> r.HappinessScore[1]], RegionFinal)
             last == focus[1].last_score
         IN  /\ focus[1].comp_phrase = "unavailable" <=> n = 0
             /\ focus[1].comp_phrase = "above" <=> (n > 0 /\ last * n > total)
             /\ focus[1].comp_phrase = "below" <=> (n > 0 /\ last * n < total)
             /\ focus[1].comp_phrase = "close" <=> (n > 0 /\ last * n = total)

\* The factors present in both rows.
Comparable(a, b) == {f \in Factors : notna(a[f]) /\ notna(b[f])}

\* The place of factor f in the fixed order of the factor fields.
Place(f) == CHOOSE i \in 1..Len(FactorCols) : FactorCols[i] = f

\* C9: in the insights of a country with a first and a last year, the factor
\* named as the biggest change is, among the six factors present at both ends,
\* one of largest |last - first|, the earliest in the fixed order among those
\* that tie, reported with its change; with no factor present at both ends no
\* factor is named.
C9_BiggestFactor ==
    (FocusEnded /\ focus # <<>>) =>
      \E a, b \in DatedRecords :
        /\ \A r \in DatedRecords : a.Year[1] <= r.Year[1] /\ r.Year[1] <= b.Year[1]
        /\ IF Comparable(a, b) = {}
           THEN focus[1].top_factor = NaN
           ELSE /\ focus[1].top_factor # NaN
                /\ LET t == focus[1].top_factor[1][1]
                       change == focus[1].top_factor[1][2]
                   IN  /\ t \in Comparable(a, b)
                       /\ change = b[t][1] - a[t][1]
                       /\ \A g \in Comparable(a, b) :
                            /\ Abs(b[g][1] - a[g][1]) <= Abs(change)
                            /\ Abs(b[g][1] - a[g][1]) = Abs(change) => Place(t) <= Place(g)

\* Economy is missing at the first year, Family rose by 1 and Health fell by 1:
\* Family, the earlier of the two that tie, is named.
C9_Witness ==
    /\ FocusEnded
    /\ focus # <<>>
    /\ Len(df) = 2
    /\ df[1].Economy = NaN
    /\ df[1].Health = <<1>> /\ df[2].Health = <<0>>
    /\ focus[1].top_factor = <<<<"Family", 1>>>>

\* How often Region g occurs in the country's rows.
RegionCount(g) == Cardinality({r \in CountryRecords : r.Region = <<g>>})

\* The Regions that occur most often in the country's rows.
MostOften ==
    {g \in Regions : RegionCount(g) > 0 /\ \A w \in Regions : RegionCount(w) <= RegionCount(g)}

\* The first of the most frequent Regions met in the rows of `rows` that belong
\* to the country.
FirstMet(rows) ==
    LET own == SelectSeq(rows, LAMBDA r : /\ r.Country = selected_country
                                          /\ r.Region # NaN
                                          /\ r.Region[1] \in MostOften)
    IN  own[1].Region[1]

\* C10 as claimed: the comparison's Region is the one occurring most often in
\* the country's rows and, among several equally frequent, the first met in the
\* original record order (the Table's, or that of the country's time series).
C10_RegionFirstMet ==
    (FocusEnded /\ focus # <<>>) =>
      /\ focus[1].region \in MostOften
      /\ \/ focus[1].region = FirstMet(df)
         \/ focus[1].region = FirstMet(focus[1].country_df)

\* C10 as amended: the comparison's Region is the one occurring most often in
\* the country's rows and, among several equally frequent, the smallest in
\* string order.
C10_RegionSmallest ==
    (FocusEnded /\ focus # <<>>) =>
      /\ focus[1].region \in MostOften
      /\ \A w \in MostOften : ~StrLess(w, focus[1].region)

\* "West" and "East" occur equally often, "West" is met first in either order,
\* and "East" is used.
C10_Witness ==
    /\ FocusEnded
    /\ focus # <<>>
    /\ MostOften = {"East", "West"}
    /\ FirstMet(df) = "West"
    /\ FirstMet(focus[1].country_df) = "West"
    /\ focus[1].region = "East"

====
